---- MODULE Spec2Model ----
(***************************************************************************)
(* A model of the JSONL transformation DSL: lexer (lexer.rs), parser       *)
(* (parser.rs), expression evaluator (evaluator.rs, utils.rs) and the      *)
(* command interpreter (interpreter.rs).                                   *)
(*                                                                         *)
(* Text (Rust String / &str) is a sequence of one-character strings, so    *)
(* that scanning, escape decoding and number formatting are computed       *)
(* character by character as the code computes them.                       *)
(***************************************************************************)
EXTENDS Integers, Sequences, FiniteSets, TLC

VARIABLES
    \* ---- evaluator harness: one call of evaluate_expression
    ev_expr,            \* the Expression handed to evaluate_expression
    ev_record,          \* the record handed to evaluate_expression
    ev_state,           \* EvaluatorState before the call
    ev_result,          \* what the call returned (and the state it left)
    ev_pc,              \* "call" before the call, "done" after it
    \* ---- Interpreter (interpreter.rs:12-17) and the run of its commands
    input_file_path,    \* Option<String>
    output_file_path,   \* Option<String>
    jsonl_data,         \* Vec<IndexMap<String, Value>>
    transformed_data,   \* Vec<IndexMap<String, Value>>
    state,              \* the run's EvaluatorState
    printed,            \* the lines the latest command wrote with println!
    written,            \* the lines save_to_output_file wrote, if it ran
    run_pc,             \* "run" inside the command loop, then "done" / "failed"
    executed,           \* history: the commands executed so far, in order
    serials,            \* history: the texts returned by Serial so far, in order
    last_transform,     \* history: the records the latest Transform produced
    \* ---- main.rs: the script on its way through Lexer and Parser
    source,             \* the script text handed to Lexer::new
    chars,              \* Lexer::input, the characters not yet consumed
    tokens,             \* the tokens pushed so far, then the Parser's tokens
    parse_result,       \* what the parsing method returned
    damage,             \* history: how the tokens differ from a well-formed script
    front_pc            \* "lex", "parse", then "parsed" / "rejected"

(***************************************************************************)
(* Bounds of the checked instances.                                        *)
(***************************************************************************)
MaxPath == 2            \* longest field path drawn for the evaluator
MaxMods == 3            \* longest modifier list drawn for the evaluator
MaxConcat == 2          \* most parts of a Concat drawn for the evaluator
MaxSerialStart == 2     \* largest counter value an evaluator call starts from
MaxRecords == 2         \* most records an input file holds
MaxText == 3            \* longest text drawn for escape decoding
MaxPieces == 3          \* most pieces following the Field of a drawn expression
MaxScriptCommands == 2  \* most commands of a drawn token script
MaxCommands == 3        \* most commands one run executes

(***************************************************************************)
(* Characters and text.                                                    *)
(***************************************************************************)
BS == "\\"
QUOTE == "\""
NL == "\n"
CR == "\r"
TAB == "\t"

Digits == <<"0", "1", "2", "3", "4", "5", "6", "7", "8", "9">>

SeqsUpTo(S, n) == UNION {[1..k -> S] : k \in 0..n}
NonEmptySeqsUpTo(S, n) == UNION {[1..k -> S] : k \in 1..n}

RECURSIVE Flatten(_)
Flatten(ss) == IF ss = <<>> THEN <<>> ELSE Head(ss) \o Flatten(Tail(ss))

\* usize::to_string: the decimal digits, most significant first.
RECURSIVE usize_to_string(_)
usize_to_string(n) ==
    IF n < 10 THEN <<Digits[n + 1]>>
    ELSE usize_to_string(n \div 10) \o <<Digits[(n % 10) + 1]>>

\* str::replace for a two-character pattern <<a, b>> and a one-character
\* replacement: matches are found left to right and do not overlap.
RECURSIVE str_replace(_, _, _, _)
str_replace(s, a, b, c) ==
    IF Len(s) < 2 THEN s
    ELSE IF s[1] = a /\ s[2] = b
         THEN <<c>> \o str_replace(SubSeq(s, 3, Len(s)), a, b, c)
         ELSE <<s[1]>> \o str_replace(Tail(s), a, b, c)

\* utils.rs: five replace passes, each over the result of the one before.
unescape_string(s) ==
    LET s1 == str_replace(s, BS, BS, BS)
        s2 == str_replace(s1, BS, "n", NL)
        s3 == str_replace(s2, BS, "r", CR)
        s4 == str_replace(s3, BS, "t", TAB)
    IN  str_replace(s4, BS, QUOTE, QUOTE)

(***************************************************************************)
(* serde_json::Value and the ordered maps holding it.  A map is a sequence *)
(* of entries [key, val] with pairwise different keys, in insertion order. *)
(***************************************************************************)
VString(s) == [k |-> "String", s |-> s, n |-> 0, m |-> <<>>]
VNumber(n) == [k |-> "Number", s |-> <<>>, n |-> n, m |-> <<>>]
VNull == [k |-> "Null", s |-> <<>>, n |-> 0, m |-> <<>>]
VObject(m) == [k |-> "Object", s |-> <<>>, n |-> 0, m |-> m]

Entry(key, val) == [key |-> key, val |-> val]

None == [some |-> FALSE, v |-> <<>>]
Some(v) == [some |-> TRUE, v |-> v]

Keys(map) == [i \in 1..Len(map) |-> map[i].key]

\* IndexMap::get / Map::get
RECURSIVE map_get(_, _)
map_get(map, key) ==
    IF map = <<>> THEN None
    ELSE IF map[1].key = key THEN Some(map[1].val)
    ELSE map_get(Tail(map), key)

\* The mutant keeps the first value inserted under a key.
map_insert_keeps_first(map, key, val) ==
    IF \E i \in 1..Len(map) : map[i].key = key
    THEN map
    ELSE Append(map, [key |-> key, val |-> val])

\* IndexMap::insert: a present key keeps its place and takes the new value,
\* a new key goes to the end.
map_insert(map, key, val) ==
    IF \E i \in 1..Len(map) : map[i].key = key
    THEN [i \in 1..Len(map) |->
            IF map[i].key = key THEN Entry(key, val) ELSE map[i]]
    ELSE Append(map, Entry(key, val))

\* The text of a JSON string: quotes around it, quote, backslash and the
\* control characters escaped.
RECURSIVE json_escape(_)
json_escape(s) ==
    IF s = <<>> THEN <<>>
    ELSE (CASE s[1] = QUOTE -> <<BS, QUOTE>>
            [] s[1] = BS -> <<BS, BS>>
            [] s[1] = NL -> <<BS, "n">>
            [] s[1] = CR -> <<BS, "r">>
            [] s[1] = TAB -> <<BS, "t">>
            [] OTHER -> <<s[1]>>) \o json_escape(Tail(s))

json_string(s) == <<QUOTE>> \o json_escape(s) \o <<QUOTE>>

\* Value's Display (to_string): compact JSON.
RECURSIVE value_to_string(_), entries_to_string(_)
value_to_string(v) ==
    CASE v.k = "String" -> json_string(v.s)
      [] v.k = "Number" -> usize_to_string(v.n)
      [] v.k = "Null" -> <<"n", "u", "l", "l">>
      [] v.k = "Object" -> <<"{">> \o entries_to_string(v.m) \o <<"}">>
entries_to_string(m) ==
    IF m = <<>> THEN <<>>
    ELSE json_string(m[1].key) \o <<":">> \o value_to_string(m[1].val)
         \o (IF Len(m) > 1 THEN <<",">> \o entries_to_string(Tail(m)) ELSE <<>>)

(***************************************************************************)
(* The AST (parser.rs:11-44).                                              *)
(***************************************************************************)
Prefix(s) == [m |-> "Prefix", s |-> s]
Suffix(s) == [m |-> "Suffix", s |-> s]
Default(s) == [m |-> "Default", s |-> s]

Expr(e, s, path, modifiers, parts) ==
    [e |-> e, s |-> s, path |-> path, modifiers |-> modifiers, parts |-> parts]
FieldPath(path) == Expr("FieldPath", <<>>, path, <<>>, <<>>)
FieldWithModifiers(path, modifiers) ==
    Expr("FieldWithModifiers", <<>>, path, modifiers, <<>>)
Literal(s) == Expr("Literal", s, <<>>, <<>>, <<>>)
Concat(parts) == Expr("Concat", <<>>, <<>>, <<>>, parts)
RawRecord == Expr("RawRecord", <<>>, <<>>, <<>>, <<>>)
Serial == Expr("Serial", <<>>, <<>>, <<>>, <<>>)
Variable(s) == Expr("Variable", s, <<>>, <<>>, <<>>)

(***************************************************************************)
(* evaluator.rs                                                            *)
(***************************************************************************)
\* EvaluatorState::new
EvaluatorState_new == [serial_counter |-> 1]

\* The loop of get_nested_value_as_string over path[1..] and the leaf's
\* conversion to a string.
RECURSIVE nested_walk(_, _)
nested_walk(current, keys) ==
    IF keys = <<>>
    THEN IF current.k = "String" THEN Some(current.s)
         ELSE Some(value_to_string(current))
    ELSE IF current.k = "Object"
         THEN LET descend(next) ==
                      IF next.some THEN nested_walk(next.v, Tail(keys)) ELSE None
              IN  descend(map_get(current.m, keys[1]))
         ELSE None

get_nested_value_as_string(record, path) ==
    LET walk(first) == IF first.some THEN nested_walk(first.v, Tail(path)) ELSE None
    IN  walk(map_get(record, path[1]))

\* The mutant lets every Default replace the value, empty or not.
RECURSIVE default_pass_overrides(_, _)
default_pass_overrides(raw_value, modifiers) ==
    IF modifiers = <<>> THEN raw_value
    ELSE LET modifier == modifiers[1]
             next == IF modifier.m = "Default"
                     THEN Some(unescape_string(modifier.s))
                     ELSE raw_value
         IN  default_pass_overrides(next, Tail(modifiers))

\* Pass 1 of evaluate_field_with_modifiers: every Default in list order
\* replaces a value that is absent or empty at that moment.
RECURSIVE default_pass(_, _)
default_pass(raw_value, modifiers) ==
    IF modifiers = <<>> THEN raw_value
    ELSE LET modifier == modifiers[1]
             next == IF modifier.m = "Default"
                        /\ (~raw_value.some \/ raw_value.v = <<>>)
                     THEN Some(unescape_string(modifier.s))
                     ELSE raw_value
         IN  default_pass(next, Tail(modifiers))

\* The mutant goes through the list from its end.
RECURSIVE prefix_suffix_pass_backwards(_, _)
prefix_suffix_pass_backwards(value, modifiers) ==
    IF modifiers = <<>> THEN value
    ELSE LET modifier == modifiers[Len(modifiers)]
             next == CASE modifier.m = "Prefix" -> unescape_string(modifier.s) \o value
                       [] modifier.m = "Suffix" -> value \o unescape_string(modifier.s)
                       [] modifier.m = "Default" -> value
         IN  prefix_suffix_pass_backwards(next, SubSeq(modifiers, 1, Len(modifiers) - 1))

\* Pass 2 of evaluate_field_with_modifiers.
RECURSIVE prefix_suffix_pass(_, _)
prefix_suffix_pass(value, modifiers) ==
    IF modifiers = <<>> THEN value
    ELSE LET modifier == modifiers[1]
             next == CASE modifier.m = "Prefix" -> unescape_string(modifier.s) \o value
                       [] modifier.m = "Suffix" -> value \o unescape_string(modifier.s)
                       [] modifier.m = "Default" -> value
         IN  prefix_suffix_pass(next, Tail(modifiers))

\* The mutant drops the two early returns on an absent or empty value.
evaluate_field_with_modifiers_always_decorates(field, record) ==
    LET pass2(raw_value) ==
            prefix_suffix_pass(IF raw_value.some THEN raw_value.v ELSE <<>>,
                               field.modifiers)
    IN  pass2(default_pass(get_nested_value_as_string(record, field.path),
                           field.modifiers))

evaluate_field_with_modifiers(field, record) ==
    LET pass2(raw_value) ==
            IF ~raw_value.some THEN <<>>
            ELSE IF raw_value.v = <<>> THEN <<>>
            ELSE prefix_suffix_pass(raw_value.v, field.modifiers)
    IN  pass2(default_pass(get_nested_value_as_string(record, field.path),
                           field.modifiers))

\* Result<Value, String> of evaluate_expression together with the
\* EvaluatorState the call leaves behind (it is passed by &mut) and, as a
\* history of the call, the texts its Serial evaluations returned.
EvalOk(val, st, trace) == [ok |-> TRUE, val |-> val, state |-> st, trace |-> trace]
EvalErr(st, trace) == [ok |-> FALSE, val |-> VNull, state |-> st, trace |-> trace]

\* Value::as_str().unwrap_or("")
as_str_or_empty(v) == IF v.k = "String" THEN v.s ELSE <<>>

\* The mutant steps the counter by two, so every other value is skipped.
eval_serial_skips(st) ==
    LET result == usize_to_string(st.serial_counter)
    IN  EvalOk(VString(result), [serial_counter |-> st.serial_counter + 2],
               <<result>>)

\* The Serial arm: the counter's text is returned, then the counter grows
\* by one.
eval_serial(st) ==
    LET result == usize_to_string(st.serial_counter)
    IN  EvalOk(VString(result), [serial_counter |-> st.serial_counter + 1],
               <<result>>)

RECURSIVE evaluate_expression(_, _, _), concat_loop(_, _, _, _, _)
evaluate_expression(expr, record, st) ==
    CASE expr.e = "Literal" -> EvalOk(VString(unescape_string(expr.s)), st, <<>>)
      [] expr.e = "FieldPath" ->
            LET unwrap_or_default(value) == IF value.some THEN value.v ELSE <<>>
            IN  EvalOk(VString(unwrap_or_default(
                          get_nested_value_as_string(record, expr.path))), st, <<>>)
      [] expr.e = "FieldWithModifiers" ->
            EvalOk(VString(evaluate_field_with_modifiers(expr, record)), st, <<>>)
      [] expr.e = "Concat" -> concat_loop(expr.parts, record, st, <<>>, <<>>)
      [] expr.e = "RawRecord" -> EvalOk(VObject(record), st, <<>>)
      [] expr.e = "Serial" -> eval_serial(st)
      \* Expression::Variable (parser.rs:32) has no arm in the match: the
      \* only outcome left to the call is its Err.
      [] OTHER -> EvalErr(st, <<>>)
concat_loop(parts, record, st, result, trace) ==
    IF parts = <<>> THEN EvalOk(VString(result), st, trace)
    ELSE LET push(r) ==
                 IF ~r.ok THEN EvalErr(r.state, trace \o r.trace)
                 ELSE concat_loop(Tail(parts), record, r.state,
                                  result \o as_str_or_empty(r.val), trace \o r.trace)
         IN  push(evaluate_expression(parts[1], record, st))

(***************************************************************************)
(* The evaluator harness: one call of evaluate_expression on an expression *)
(* and a record drawn from bounded sets.                                   *)
(***************************************************************************)
KeyA == <<"a">>
KeyB == <<"b">>
SampleKeys == {KeyA, KeyB}

\* Leaf and nested values a record holds under a key.
SampleValues ==
    { VString(<<>>), VString(<<"v">>), VNumber(7), VNull,
      VObject(<<Entry(KeyB, VString(<<"v">>))>>),
      VObject(<<Entry(KeyB, VString(<<>>))>>),
      VObject(<<Entry(KeyB, VObject(<<Entry(KeyA, VString(<<"w">>))>>))>>) }

SampleRecords ==
    { <<>> }
    \cup { <<Entry(KeyA, v)>> : v \in SampleValues }
    \cup { <<Entry(KeyA, VString(<<"v">>)), Entry(KeyB, VString(<<>>))>>,
           <<Entry(KeyB, VString(<<"1">>)), Entry(KeyA, VString(<<>>))>> }

SamplePaths == NonEmptySeqsUpTo(SampleKeys, MaxPath)

SampleModifiers ==
    { Prefix(<<"P">>), Prefix(<<BS, "t">>), Suffix(<<"S">>), Default(<<"x">>),
      Default(<<>>), Default(<<BS, "n">>) }

SampleModifierLists == NonEmptySeqsUpTo(SampleModifiers, MaxMods)

SampleTerms ==
    { Literal(<<"_">>), Literal(<<BS, "t">>), FieldPath(<<KeyA>>),
      FieldWithModifiers(<<KeyA>>, <<Default(<<"x">>)>>),
      RawRecord, Serial, Variable(<<"y">>) }

SampleExpressions ==
    SampleTerms
    \cup { FieldPath(p) : p \in SamplePaths }
    \cup { FieldWithModifiers(p, ms) : p \in SamplePaths, ms \in SampleModifierLists }
    \cup { Concat(ps) : ps \in [1..MaxConcat -> SampleTerms] }

ev_vars == <<ev_expr, ev_record, ev_state, ev_result, ev_pc>>

run_vars ==
    <<input_file_path, output_file_path, jsonl_data, transformed_data, state,
      printed, written, run_pc, executed, serials, last_transform>>

front_vars == <<source, chars, tokens, parse_result, damage, front_pc>>

NoDamage == [kind |-> "none", at |-> 0, was |-> "none"]
NotParsed == [ok |-> FALSE, position |-> 0, value |-> <<>>]

FrontIdle ==
    /\ source = <<>>
    /\ chars = <<>>
    /\ tokens = <<>>
    /\ parse_result = NotParsed
    /\ damage = NoDamage
    /\ front_pc = "idle"

NoResult == EvalErr(EvaluatorState_new, <<>>)

EvalIdle ==
    /\ ev_expr = Literal(<<>>)
    /\ ev_record = <<>>
    /\ ev_state = EvaluatorState_new
    /\ ev_result = NoResult
    /\ ev_pc = "idle"

EvalInit ==
    /\ ev_expr \in SampleExpressions
    /\ ev_record \in SampleRecords
    /\ ev_state \in {[serial_counter |-> c] : c \in 1..MaxSerialStart}
    /\ ev_result = NoResult
    /\ ev_pc = "call"

\* Texts over backslash, the escape letters, the quote and a plain letter,
\* as a Literal and as the text of a Prefix on a field holding "v".
EscapeChars == {BS, "n", "r", "t", QUOTE, "a"}
SampleTexts == SeqsUpTo(EscapeChars, MaxText)
TextRecord == <<Entry(KeyA, VString(<<"v">>))>>

LiteralInit ==
    /\ ev_expr \in { Literal(text) : text \in SampleTexts }
                   \cup { FieldWithModifiers(<<KeyA>>, <<Prefix(text)>>) :
                              text \in SampleTexts }
    /\ ev_record = TextRecord
    /\ ev_state = EvaluatorState_new
    /\ ev_result = NoResult
    /\ ev_pc = "call"

\* The call.
Evaluate ==
    /\ ev_pc = "call"
    /\ ev_result' = evaluate_expression(ev_expr, ev_record, ev_state)
    /\ ev_pc' = "done"
    /\ UNCHANGED <<ev_expr, ev_record, ev_state>>
    /\ UNCHANGED <<run_vars, front_vars>>

(***************************************************************************)
(* interpreter.rs                                                          *)
(***************************************************************************)
Cmd(c, path, n, assignments) ==
    [c |-> c, path |-> path, n |-> n, assignments |-> assignments]
CmdInput(path) == Cmd("Input", path, 0, <<>>)
CmdOutput(path) == Cmd("Output", path, 0, <<>>)
CmdPrint == Cmd("Print", <<>>, 0, <<>>)
CmdPrintLine(n) == Cmd("PrintLine", <<>>, n, <<>>)
CmdTransform(assignments) == Cmd("Transform", <<>>, 0, assignments)

Assign(field_name, expr) == [field_name |-> field_name, expr |-> expr]

\* serde_json::to_string of a record: one JSON object, keys in map order.
to_json_line(record) == <<"{">> \o entries_to_string(record) \o <<"}">>
to_json_lines(data) == [i \in 1..Len(data) |-> to_json_line(data[i])]

\* The files read_jsonl_file can be asked for.
FileA == <<"a", ".", "j", "s", "o", "n", "l">>
FileB == <<"b", ".", "j", "s", "o", "n", "l">>
FileEmpty == <<"e", ".", "j", "s", "o", "n", "l">>
FileMissing == <<"m", ".", "j", "s", "o", "n", "l">>
FileOut == <<"o", ".", "j", "s", "o", "n", "l">>

FileScenario == <<"q", ".", "j", "s", "o", "n", "l">>

\* The line {"q":"2+2","lvl":"1"} of the file q.jsonl.
ScenarioRecord ==
    <<Entry(<<"q">>, VString(<<"2", "+", "2">>)),
      Entry(<<"l", "v", "l">>, VString(<<"1">>))>>

\* The i-th line of an input file; odd and even lines order their keys
\* differently.
FileRecord(tag, i) ==
    IF i % 2 = 1
    THEN <<Entry(KeyA, VString(<<tag>> \o usize_to_string(i))),
           Entry(KeyB, VString(<<>>))>>
    ELSE <<Entry(KeyB, VObject(<<Entry(KeyA, VNumber(i))>>)),
           Entry(KeyA, VString(<<tag>> \o usize_to_string(i)))>>

\* read_jsonl_file: the records of the file's lines, or Err when the file
\* cannot be opened.
read_jsonl_file(path) ==
    CASE path = FileA -> [ok |-> TRUE, data |-> [i \in 1..MaxRecords |-> FileRecord("r", i)]]
      [] path = FileB -> [ok |-> TRUE, data |-> <<FileRecord("s", 1)>>]
      [] path = FileEmpty -> [ok |-> TRUE, data |-> <<>>]
      [] path = FileScenario -> [ok |-> TRUE, data |-> <<ScenarioRecord>>]
      [] OTHER -> [ok |-> FALSE, data |-> <<>>]

\* Interpreter::new
Interpreter_new ==
    [input_file_path |-> None, output_file_path |-> None,
     jsonl_data |-> <<>>, transformed_data |-> <<>>]

\* The EvaluatorState of one run: created once, before the first command,
\* and handed to every evaluate_expression call of the run.
RunEvaluatorState == EvaluatorState_new

\* What executing one command leaves: the interpreter's fields, the
\* evaluator state, whether run goes on (ok) or returns / panics, the lines
\* printed, and the texts its Serial evaluations returned.
Outcome(self, st, ok, lines, trace) ==
    [self |-> self, state |-> st, ok |-> ok, printed |-> lines, trace |-> trace]

exec_input(self, st, path) ==
    LET load(s1, r) ==
            IF r.ok THEN Outcome([s1 EXCEPT !.jsonl_data = r.data], st, TRUE, <<>>, <<>>)
            ELSE Outcome(s1, st, FALSE, <<>>, <<>>)
    IN  load([self EXCEPT !.input_file_path = Some(path)], read_jsonl_file(path))

exec_output(self, st, path) ==
    Outcome([self EXCEPT !.output_file_path = Some(path)], st, TRUE, <<>>, <<>>)

exec_print(self, st) ==
    Outcome(self, st, TRUE, to_json_lines(self.jsonl_data), <<>>)

\* println! of the out-of-range arm (without its leading warning sign).
out_of_range_warning(line_num) ==
    <<"L", "i", "n", "e", " ", "n", "u", "m", "b", "e", "r", " ">> \o usize_to_string(line_num) \o <<" ", "i", "s", " ", "o", "u", "t", " ", "o", "f", " ", "r", "a", "n", "g", "e", ".">>

\* The mutant forgets line_num == 0: jsonl_data[line_num - 1] then indexes
\* out of bounds and the run panics.
exec_print_line_no_zero_check(self, st, line_num) ==
    IF line_num > Len(self.jsonl_data)
    THEN Outcome(self, st, TRUE, <<out_of_range_warning(line_num)>>, <<>>)
    ELSE IF line_num = 0 THEN Outcome(self, st, FALSE, <<>>, <<>>)
    ELSE Outcome(self, st, TRUE, <<to_json_line(self.jsonl_data[line_num])>>, <<>>)

exec_print_line(self, st, line_num) ==
    IF line_num = 0 \/ line_num > Len(self.jsonl_data)
    THEN Outcome(self, st, TRUE, <<out_of_range_warning(line_num)>>, <<>>)
    ELSE Outcome(self, st, TRUE, <<to_json_line(self.jsonl_data[line_num])>>, <<>>)

\* The inner loop of Transform: the assignments of one record, in order.
\* evaluate_expression's value is stored under the target key as it is (a
\* string for every expression but raw(), whose object is stored whole).
RECURSIVE transform_record(_, _, _, _, _)
transform_record(assignments, original, st, new_record, trace) ==
    IF assignments = <<>>
    THEN [ok |-> TRUE, record |-> new_record, state |-> st, trace |-> trace]
    ELSE LET insert(r) ==
                 IF ~r.ok
                 THEN [ok |-> FALSE, record |-> new_record, state |-> r.state,
                       trace |-> trace \o r.trace]
                 ELSE transform_record(
                          Tail(assignments), original, r.state,
                          map_insert(new_record, assignments[1].field_name, r.val),
                          trace \o r.trace)
         IN  insert(evaluate_expression(assignments[1].expr, original, st))

\* The outer loop of Transform: the loaded records, in order.
RECURSIVE transform_loop(_, _, _, _, _)
transform_loop(records, assignments, st, out, trace) ==
    IF records = <<>>
    THEN [ok |-> TRUE, data |-> out, state |-> st, trace |-> trace]
    ELSE LET push(r) ==
                 IF ~r.ok
                 THEN [ok |-> FALSE, data |-> out, state |-> r.state,
                       trace |-> trace \o r.trace]
                 ELSE transform_loop(Tail(records), assignments, r.state,
                                     Append(out, r.record), trace \o r.trace)
         IN  push(transform_record(assignments, records[1], st, <<>>, <<>>))

exec_transform(self, st, assignments) ==
    LET store(r) ==
            Outcome([self EXCEPT !.transformed_data = r.data], r.state, r.ok,
                    <<>>, r.trace)
    IN  store(transform_loop(self.jsonl_data, assignments, st, <<>>, <<>>))

\* One iteration of the command loop of run.
exec_command(self, st, command) ==
    CASE command.c = "Input" -> exec_input(self, st, command.path)
      [] command.c = "Output" -> exec_output(self, st, command.path)
      [] command.c = "Print" -> exec_print(self, st)
      [] command.c = "PrintLine" -> exec_print_line(self, st, command.n)
      [] command.c = "Transform" -> exec_transform(self, st, command.assignments)

\* After the loop: which collection run hands to save_to_output_file.
data_to_save(self) ==
    IF self.transformed_data # <<>> THEN self.transformed_data ELSE self.jsonl_data

Self ==
    [input_file_path |-> input_file_path, output_file_path |-> output_file_path,
     jsonl_data |-> jsonl_data, transformed_data |-> transformed_data]

RunIdle ==
    /\ input_file_path = None
    /\ output_file_path = None
    /\ jsonl_data = <<>>
    /\ transformed_data = <<>>
    /\ state = RunEvaluatorState
    /\ printed = <<>>
    /\ written = None
    /\ run_pc = "idle"
    /\ executed = <<>>
    /\ serials = <<>>
    /\ last_transform = None

\* let mut interpreter = Interpreter::new(); interpreter.run(commands)
RunInit ==
    /\ input_file_path = Interpreter_new.input_file_path
    /\ output_file_path = Interpreter_new.output_file_path
    /\ jsonl_data = Interpreter_new.jsonl_data
    /\ transformed_data = Interpreter_new.transformed_data
    /\ state = RunEvaluatorState
    /\ printed = <<>>
    /\ written = None
    /\ run_pc = "run"
    /\ executed = <<>>
    /\ serials = <<>>
    /\ last_transform = None

\* The effect of one command of the loop on the variables: r is what
\* exec_command returned for it.
Effect(command, r) ==
    /\ input_file_path' = r.self.input_file_path
    /\ output_file_path' = r.self.output_file_path
    /\ jsonl_data' = r.self.jsonl_data
    /\ transformed_data' = r.self.transformed_data
    /\ state' = r.state
    /\ printed' = r.printed
    /\ run_pc' = IF r.ok THEN "run" ELSE "failed"
    /\ executed' = Append(executed, command)
    /\ serials' = serials \o r.trace
    /\ last_transform' = IF command.c = "Transform"
                         THEN Some(r.self.transformed_data)
                         ELSE last_transform
    /\ UNCHANGED written
    /\ UNCHANGED <<ev_vars, front_vars>>

Exec(command) == Effect(command, exec_command(Self, state, command))

\* The commands a run is made of.
SampleInputPaths == {FileA, FileB, FileEmpty, FileMissing}

SampleTransforms ==
    { <<>>,
      <<Assign(<<"n">>, Serial)>>,
      <<Assign(<<"x">>, FieldPath(<<KeyA>>)),
        Assign(<<"n">>, Concat(<<Serial, Literal(<<"_">>), Serial>>))>>,
      <<Assign(<<"n">>, Serial), Assign(<<"x">>, RawRecord),
        Assign(<<"n">>, FieldWithModifiers(<<KeyB>>, <<Default(<<"d">>)>>))>>,
      <<Assign(<<"x">>, Literal(<<"k">>)), Assign(<<"y">>, Variable(<<"v">>))>> }

CanExecute == run_pc = "run" /\ Len(executed) < MaxCommands

ExecInput == \E path \in SampleInputPaths : CanExecute /\ Exec(CmdInput(path))
ExecOutput == CanExecute /\ Exec(CmdOutput(FileOut))
ExecPrint == CanExecute /\ Exec(CmdPrint)
ExecPrintLine == \E n \in 0..(MaxRecords + 1) : CanExecute /\ Exec(CmdPrintLine(n))
ExecTransform ==
    \E assignments \in SampleTransforms : CanExecute /\ Exec(CmdTransform(assignments))

\* println! of save_to_output_file (without its leading check mark).
output_saved_message(path) == <<"O", "u", "t", "p", "u", "t", " ", "s", "a", "v", "e", "d", " ", "t", "o", " ", "'">> \o path \o <<"'">>

\* The loop is over: with an output path, the chosen collection is saved.
Finish ==
    /\ run_pc = "run"
    /\ run_pc' = "done"
    /\ written' = IF output_file_path.some
                  THEN Some(to_json_lines(data_to_save(Self)))
                  ELSE None
    /\ printed' = IF output_file_path.some
                  THEN <<output_saved_message(output_file_path.v)>>
                  ELSE <<>>
    /\ UNCHANGED <<input_file_path, output_file_path, jsonl_data, transformed_data,
                   state, executed, serials, last_transform>>
    /\ UNCHANGED <<ev_vars, front_vars>>

(***************************************************************************)
(* Tokens (lexer.rs:11-39; parser.rs also matches Token::Let and           *)
(* Token::Const).  NoToken stands for current_token() returning None.      *)
(***************************************************************************)
Tok(t, s, n) == [t |-> t, s |-> s, n |-> n]
TInput == Tok("Input", <<>>, 0)
TOutput == Tok("Output", <<>>, 0)
TTransform == Tok("Transform", <<>>, 0)
TPrint == Tok("Print", <<>>, 0)
TLet == Tok("Let", <<>>, 0)
TConst == Tok("Const", <<>>, 0)
TStringLiteral(s) == Tok("StringLiteral", s, 0)
TIdentifier(s) == Tok("Identifier", s, 0)
TField(s) == Tok("Field", s, 0)
TNumber(n) == Tok("Number", <<>>, n)
TPlus == Tok("Plus", <<>>, 0)
TEqual == Tok("Equal", <<>>, 0)
TSemicolon == Tok("Semicolon", <<>>, 0)
TLBrace == Tok("LBrace", <<>>, 0)
TRBrace == Tok("RBrace", <<>>, 0)
TDot == Tok("Dot", <<>>, 0)
TLParen == Tok("LParen", <<>>, 0)
TRParen == Tok("RParen", <<>>, 0)
TComment(s) == Tok("Comment", s, 0)
TUnknown(c) == Tok("Unknown", <<c>>, 0)
NoToken == Tok("None", <<>>, 0)

(***************************************************************************)
(* parser.rs.  position counts the tokens consumed, as Parser::position.   *)
(***************************************************************************)
CmdLet(name, expr) == Cmd("Let", <<>>, 0, <<Assign(name, expr)>>)
CmdConst(name, expr) == Cmd("Const", <<>>, 0, <<Assign(name, expr)>>)

\* Result<_, String> of a parsing method, with the position it leaves.
POk(position, value) == [ok |-> TRUE, position |-> position, value |-> value]
PErr(position) == [ok |-> FALSE, position |-> position, value |-> <<>>]

current_token(toks, position) ==
    IF position < Len(toks) THEN toks[position + 1] ELSE NoToken

expect(toks, position, expected) ==
    IF current_token(toks, position) = expected
    THEN POk(position + 1, <<>>)
    ELSE PErr(position)

KwLine == <<"l", "i", "n", "e">>
KwRaw == <<"r", "a", "w">>
KwSerial == <<"s", "e", "r", "i", "a", "l">>
KwPrefix == <<"p", "r", "e", "f", "i", "x">>
KwSuffix == <<"s", "u", "f", "f", "i", "x">>
KwDefault == <<"d", "e", "f", "a", "u", "l", "t">>

\* The mutant returns Ok with the modifiers collected so far when the
\* closing parenthesis is missing.
RECURSIVE parse_modifiers_lenient_loop(_, _, _)
parse_modifiers_lenient_loop(toks, position, modifiers) ==
    IF current_token(toks, position).t # "Dot" THEN POk(position, modifiers)
    ELSE IF current_token(toks, position + 1).t = "Identifier"
            /\ current_token(toks, position + 2).t = "LParen"
         THEN LET name == current_token(toks, position + 1).s
                  value == current_token(toks, position + 3)
              IN  IF value.t # "StringLiteral" THEN POk(position + 3, modifiers)
                  ELSE IF current_token(toks, position + 4).t # "RParen"
                       THEN POk(position + 4, modifiers)
                  ELSE IF name = KwPrefix
                       THEN parse_modifiers_lenient_loop(
                                toks, position + 5, Append(modifiers, Prefix(value.s)))
                  ELSE IF name = KwSuffix
                       THEN parse_modifiers_lenient_loop(
                                toks, position + 5, Append(modifiers, Suffix(value.s)))
                  ELSE IF name = KwDefault
                       THEN parse_modifiers_lenient_loop(
                                toks, position + 5, Append(modifiers, Default(value.s)))
                  ELSE POk(position + 5, modifiers)
         ELSE POk(position, modifiers)

\* The loop of parse_modifiers: while the current token is a Dot followed
\* by Identifier and LParen, one call `. name ( "text" )` is consumed.
RECURSIVE parse_modifiers_loop(_, _, _)
parse_modifiers_loop(toks, position, modifiers) ==
    IF current_token(toks, position).t # "Dot" THEN POk(position, modifiers)
    ELSE IF current_token(toks, position + 1).t = "Identifier"
            /\ current_token(toks, position + 2).t = "LParen"
         THEN LET name == current_token(toks, position + 1).s
                  \* two advances and expect(LParen), which cannot fail here
                  value == current_token(toks, position + 3)
              IN  IF value.t # "StringLiteral" THEN POk(position + 3, modifiers)
                  ELSE IF ~expect(toks, position + 4, TRParen).ok
                       THEN PErr(position + 4)
                  ELSE IF name = KwPrefix
                       THEN parse_modifiers_loop(
                                toks, position + 5, Append(modifiers, Prefix(value.s)))
                  ELSE IF name = KwSuffix
                       THEN parse_modifiers_loop(
                                toks, position + 5, Append(modifiers, Suffix(value.s)))
                  ELSE IF name = KwDefault
                       THEN parse_modifiers_loop(
                                toks, position + 5, Append(modifiers, Default(value.s)))
                  ELSE POk(position + 5, modifiers)
         ELSE POk(position, modifiers)

parse_modifiers(toks, position) == parse_modifiers_loop(toks, position, <<>>)

\* The mutant extends the path at every Dot followed by an Identifier,
\* whatever follows the Identifier.
RECURSIVE path_loop_no_lookahead(_, _, _)
path_loop_no_lookahead(toks, position, path) ==
    IF current_token(toks, position).t # "Dot" THEN POk(position, path)
    ELSE IF current_token(toks, position + 1).t = "Identifier"
         THEN path_loop_no_lookahead(toks, position + 2,
                                     Append(path, current_token(toks, position + 1).s))
         ELSE POk(position, path)

\* The path loop of parse_expression's Field arm.
RECURSIVE path_loop(_, _, _)
path_loop(toks, position, path) ==
    IF current_token(toks, position).t # "Dot" THEN POk(position, path)
    ELSE IF current_token(toks, position + 1).t = "Identifier"
         THEN IF current_token(toks, position + 2).t = "LParen"
              THEN POk(position, path)
              ELSE path_loop(toks, position + 2,
                             Append(path, current_token(toks, position + 1).s))
         ELSE POk(position, path)

\* The Field arm: the path, then the modifiers.
parse_field(toks, position) ==
    LET with_modifiers(path, mods) ==
            IF ~mods.ok THEN PErr(mods.position)
            ELSE IF mods.value = <<>> THEN POk(mods.position, FieldPath(path))
            ELSE POk(mods.position, FieldWithModifiers(path, mods.value))
        with_path(p) == with_modifiers(p.value, parse_modifiers(toks, p.position))
    IN  with_path(path_loop(toks, position + 1, <<current_token(toks, position).s>>))

\* The arms raw() and serial(): the identifier, then `(` and `)`.
parse_call(toks, position, expr) ==
    IF ~expect(toks, position + 1, TLParen).ok THEN PErr(position + 1)
    ELSE IF ~expect(toks, position + 2, TRParen).ok THEN PErr(position + 2)
    ELSE POk(position + 3, expr)

\* One term of parse_expression's match, the current token being no
\* Comment.
parse_term(toks, position) ==
    LET token == current_token(toks, position)
    IN  CASE token.t = "Field" -> parse_field(toks, position)
          [] token.t = "StringLiteral" -> POk(position + 1, Literal(token.s))
          [] token.t = "Identifier" /\ token.s = KwRaw ->
                parse_call(toks, position, RawRecord)
          [] token.t = "Identifier" /\ token.s = KwSerial ->
                parse_call(toks, position, Serial)
          [] token.t = "Identifier" /\ token.s \notin {KwRaw, KwSerial} ->
                POk(position + 1, Variable(token.s))
          [] OTHER -> PErr(position)

\* The mutant wraps the parts in a Concat however many they are.
RECURSIVE parse_expression_loop_always_concat(_, _, _)
parse_expression_loop_always_concat(toks, position, parts) ==
    IF current_token(toks, position).t = "Comment"
    THEN parse_expression_loop_always_concat(toks, position + 1, parts)
    ELSE LET push(term) ==
                 IF ~term.ok THEN PErr(term.position)
                 ELSE IF current_token(toks, term.position).t \in {"Plus", "Comment"}
                      THEN parse_expression_loop_always_concat(
                               toks, term.position + 1, Append(parts, term.value))
                 ELSE POk(term.position, Concat(Append(parts, term.value)))
         IN  push(parse_term(toks, position))

\* The loop of parse_expression and what follows it.
RECURSIVE parse_expression_loop(_, _, _)
parse_expression_loop(toks, position, parts) ==
    IF current_token(toks, position).t = "Comment"
    THEN parse_expression_loop(toks, position + 1, parts)
    ELSE LET push(term) ==
                 IF ~term.ok THEN PErr(term.position)
                 ELSE IF current_token(toks, term.position).t \in {"Plus", "Comment"}
                      THEN parse_expression_loop(toks, term.position + 1,
                                                 Append(parts, term.value))
                 ELSE IF parts = <<>> THEN POk(term.position, term.value)
                 ELSE POk(term.position, Concat(Append(parts, term.value)))
         IN  push(parse_term(toks, position))

parse_expression(toks, position) == parse_expression_loop(toks, position, <<>>)

parse_input(toks, position) ==
    LET token == current_token(toks, position + 1)
    IN  IF token.t = "StringLiteral"
        THEN IF expect(toks, position + 2, TSemicolon).ok
             THEN POk(position + 3, CmdInput(token.s))
             ELSE PErr(position + 2)
        ELSE PErr(position + 1)

parse_output(toks, position) ==
    LET token == current_token(toks, position + 1)
    IN  IF token.t = "StringLiteral"
        THEN IF expect(toks, position + 2, TSemicolon).ok
             THEN POk(position + 3, CmdOutput(token.s))
             ELSE PErr(position + 2)
        ELSE PErr(position + 1)

parse_print(toks, position) ==
    LET token == current_token(toks, position + 1)
        number == current_token(toks, position + 2)
    IN  IF token.t = "Semicolon" THEN POk(position + 2, CmdPrint)
        ELSE IF token.t = "Identifier" /\ token.s = KwLine
             THEN IF number.t = "Number"
                  THEN IF expect(toks, position + 3, TSemicolon).ok
                       THEN POk(position + 4, CmdPrintLine(number.n))
                       ELSE PErr(position + 3)
                  ELSE PErr(position + 2)
        ELSE PErr(position + 1)

\* `key = expr ;` inside a transform block, after the key; also the tail
\* of let and const after the name.
parse_assignment(toks, position) ==
    LET semicolon(expr) ==
            IF ~expr.ok THEN PErr(expr.position)
            ELSE IF ~expect(toks, expr.position, TSemicolon).ok
                 THEN PErr(expr.position)
            ELSE POk(expr.position + 1, expr.value)
    IN  IF ~expect(toks, position, TEqual).ok THEN PErr(position)
        ELSE semicolon(parse_expression(toks, position + 1))

\* The while-let loop of parse_transform; it also ends, without an error,
\* when no token is left.
RECURSIVE parse_transform_loop(_, _, _)
parse_transform_loop(toks, position, transforms) ==
    LET token == current_token(toks, position)
        push(expr) ==
            IF ~expr.ok THEN PErr(expr.position)
            ELSE parse_transform_loop(toks, expr.position,
                                      Append(transforms, Assign(token.s, expr.value)))
    IN  CASE token.t = "None" -> POk(position, CmdTransform(transforms))
          [] token.t = "Comment" -> parse_transform_loop(toks, position + 1, transforms)
          [] token.t = "RBrace" -> POk(position + 1, CmdTransform(transforms))
          [] token.t = "Identifier" -> push(parse_assignment(toks, position + 1))
          [] OTHER -> PErr(position)

parse_transform(toks, position) ==
    IF ~expect(toks, position + 1, TLBrace).ok THEN PErr(position + 1)
    ELSE parse_transform_loop(toks, position + 2, <<>>)

parse_let(toks, position) ==
    LET name == current_token(toks, position + 1)
        command(expr) ==
            IF expr.ok THEN POk(expr.position, CmdLet(name.s, expr.value)) ELSE expr
    IN  IF name.t = "Identifier" THEN command(parse_assignment(toks, position + 2))
        ELSE PErr(position + 1)

parse_const(toks, position) ==
    LET name == current_token(toks, position + 1)
        command(expr) ==
            IF expr.ok THEN POk(expr.position, CmdConst(name.s, expr.value)) ELSE expr
    IN  IF name.t = "Identifier" THEN command(parse_assignment(toks, position + 2))
        ELSE PErr(position + 1)

\* One command of parse's match, the current token being no Comment.
parse_command(toks, position) ==
    LET token == current_token(toks, position)
    IN  CASE token.t = "Input" -> parse_input(toks, position)
          [] token.t = "Output" -> parse_output(toks, position)
          [] token.t = "Print" -> parse_print(toks, position)
          [] token.t = "Transform" -> parse_transform(toks, position)
          [] token.t = "Let" -> parse_let(toks, position)
          [] token.t = "Const" -> parse_const(toks, position)
          [] OTHER -> PErr(position)

\* The loop of parse: Ok(commands) when no token is left, Err at the first
\* command that fails.
RECURSIVE parse_loop(_, _, _)
parse_loop(toks, position, cmds) ==
    LET push(command) ==
            IF ~command.ok THEN PErr(command.position)
            ELSE parse_loop(toks, command.position, Append(cmds, command.value))
    IN  IF current_token(toks, position).t = "None" THEN POk(position, cmds)
        ELSE IF current_token(toks, position).t = "Comment"
             THEN parse_loop(toks, position + 1, cmds)
        ELSE push(parse_command(toks, position))

\* Parser::new(tokens).parse()
parse(toks) == parse_loop(toks, 0, <<>>)

(***************************************************************************)
(* lexer.rs.  The Lexer's input is the sequence of characters not yet      *)
(* consumed; a reading method returns its token and the characters left.   *)
(* The scripts drawn are ASCII, so is_alphanumeric is letters and digits.  *)
(***************************************************************************)
Letters ==
    {"a", "b", "c", "d", "e", "f", "g", "h", "i", "j", "k", "l", "m", "n", "o",
      "p", "q", "r", "s", "t", "u", "v", "w", "x", "y", "z", "A", "B", "C",
      "D", "E", "F", "G", "H", "I", "J", "K", "L", "M", "N", "O", "P", "Q",
      "R", "S", "T", "U", "V", "W", "X", "Y", "Z"}
DigitChars == {Digits[i] : i \in 1..Len(Digits)}
is_alphanumeric(c) == c \in Letters \/ c \in DigitChars
is_whitespace(c) == c \in {" ", NL, CR, TAB}
is_word(c) == is_alphanumeric(c) \/ c = "_"

TEOF == Tok("EOF", <<>>, 0)
Lexed(token, rest) == [token |-> token, rest |-> rest]

\* str::trim
RECURSIVE trim_start(_)
trim_start(s) ==
    IF s # <<>> /\ is_whitespace(Head(s)) THEN trim_start(Tail(s)) ELSE s
RECURSIVE trim_end(_)
trim_end(s) ==
    IF s # <<>> /\ is_whitespace(s[Len(s)]) THEN trim_end(SubSeq(s, 1, Len(s) - 1)) ELSE s
trim(s) == trim_end(trim_start(s))

RECURSIVE read_string_loop(_, _)
read_string_loop(input, result) ==
    IF input = <<>> THEN Lexed(TStringLiteral(result), <<>>)
    ELSE IF Head(input) = QUOTE THEN Lexed(TStringLiteral(result), Tail(input))
    ELSE read_string_loop(Tail(input), Append(result, Head(input)))
read_string(input) == read_string_loop(input, <<>>)

\* The loop shared by read_field and read_identifier_or_number.
RECURSIVE read_word(_, _)
read_word(input, name) ==
    IF input # <<>> /\ is_word(Head(input))
    THEN read_word(Tail(input), Append(name, Head(input)))
    ELSE [text |-> name, rest |-> input]

read_field(input) ==
    LET token(w) == Lexed(TField(w.text), w.rest)
    IN  token(read_word(input, <<>>))

\* str::parse::<usize> of a word: Ok exactly for digits only (the words
\* drawn stay far below usize::MAX).
DigitValue(c) == CHOOSE d \in 0..9 : Digits[d + 1] = c
RECURSIVE parse_usize_loop(_, _)
parse_usize_loop(s, n) ==
    IF s = <<>> THEN n ELSE parse_usize_loop(Tail(s), 10 * n + DigitValue(Head(s)))
parse_usize(s) ==
    IF \A i \in 1..Len(s) : s[i] \in DigitChars
    THEN Some(parse_usize_loop(s, 0))
    ELSE None

KwInput == <<"i", "n", "p", "u", "t">>
KwOutput == <<"o", "u", "t", "p", "u", "t">>
KwTransform == <<"t", "r", "a", "n", "s", "f", "o", "r", "m">>
KwPrint == <<"p", "r", "i", "n", "t">>

read_identifier_or_number(first_char, input) ==
    LET token(w) ==
            CASE w.text = KwInput -> Lexed(TInput, w.rest)
              [] w.text = KwOutput -> Lexed(TOutput, w.rest)
              [] w.text = KwTransform -> Lexed(TTransform, w.rest)
              [] w.text = KwPrint -> Lexed(TPrint, w.rest)
              [] OTHER -> IF parse_usize(w.text).some
                          THEN Lexed(TNumber(parse_usize(w.text).v), w.rest)
                          ELSE Lexed(TIdentifier(w.text), w.rest)
    IN  token(read_word(input, <<first_char>>))

RECURSIVE read_line_comment_loop(_, _)
read_line_comment_loop(input, result) ==
    IF input = <<>> \/ Head(input) = NL THEN Lexed(TComment(trim(result)), input)
    ELSE read_line_comment_loop(Tail(input), Append(result, Head(input)))
read_line_comment(input) == read_line_comment_loop(input, <<>>)

RECURSIVE read_block_comment_loop(_, _)
read_block_comment_loop(input, result) ==
    IF input = <<>> THEN Lexed(TComment(trim(result)), <<>>)
    ELSE IF Head(input) = "*" /\ Len(input) >= 2 /\ input[2] = "/"
         THEN Lexed(TComment(trim(result)), Tail(Tail(input)))
    ELSE read_block_comment_loop(Tail(input), Append(result, Head(input)))
read_block_comment(input) == read_block_comment_loop(input, <<>>)

RECURSIVE next_token(_)
next_token(input) ==
    IF input = <<>> THEN Lexed(TEOF, <<>>)
    ELSE LET c == Head(input)
             rest == Tail(input)
         IN  CASE c = "/" ->
                    IF rest # <<>> /\ Head(rest) = "/" THEN read_line_comment(Tail(rest))
                    ELSE IF rest # <<>> /\ Head(rest) = "*"
                         THEN read_block_comment(Tail(rest))
                    ELSE Lexed(TUnknown(c), rest)
               [] c = QUOTE -> read_string(rest)
               [] c = "@" -> read_field(rest)
               [] c = "+" -> Lexed(TPlus, rest)
               [] c = "=" -> Lexed(TEqual, rest)
               [] c = ";" -> Lexed(TSemicolon, rest)
               [] c = "{" -> Lexed(TLBrace, rest)
               [] c = "}" -> Lexed(TRBrace, rest)
               [] c = "." -> Lexed(TDot, rest)
               [] c = "(" -> Lexed(TLParen, rest)
               [] c = ")" -> Lexed(TRParen, rest)
               [] is_whitespace(c) -> next_token(rest)
               [] is_alphanumeric(c) -> read_identifier_or_number(c, rest)
               [] OTHER -> Lexed(TUnknown(c), rest)

(***************************************************************************)
(* One call of parse_expression on drawn tokens: a Field followed by       *)
(* pieces of paths, modifier calls (well formed or not) and further terms, *)
(* and the other kinds of term.                                            *)
(***************************************************************************)
CallPieces(name) ==
    { <<TDot, TIdentifier(name), TLParen, TStringLiteral(<<"_">>), TRParen>>,
      <<TDot, TIdentifier(name), TLParen, TStringLiteral(<<"_">>)>>,
      <<TDot, TIdentifier(name), TLParen, TIdentifier(KeyB), TRParen>> }

FieldPieces ==
    CallPieces(KwPrefix) \cup CallPieces(KwSuffix) \cup CallPieces(<<"u", "p">>)
    \cup { <<TDot, TIdentifier(KeyB)>>,
           <<TDot, TIdentifier(KwDefault), TLParen, TStringLiteral(<<"0">>), TRParen>>,
           <<TDot, TIdentifier(KwPrefix), TStringLiteral(<<"_">>), TRParen>>,
           <<TDot, TIdentifier(KwSuffix), TLParen, TRParen>>,
           <<TDot>>,
           <<TPlus, TStringLiteral(<<"_">>)>>,
           <<TComment(<<"c">>)>> }

OtherTerms ==
    { <<TStringLiteral(<<"x">>)>>,
      <<TIdentifier(KwSerial), TLParen, TRParen>>,
      <<TIdentifier(KwRaw), TLParen, TRParen, TPlus, TField(KeyA)>>,
      <<TIdentifier(KwSerial), TLParen>>,
      <<TIdentifier(<<"v">>), TPlus>>,
      <<TComment(<<"c">>), TField(KeyA), TComment(<<"c">>), TField(KeyB)>>,
      <<TSemicolon>>,
      <<>> }

SampleExpressionTokens ==
    { <<TField(KeyA)>> \o Flatten(pieces) : pieces \in SeqsUpTo(FieldPieces, MaxPieces) }
    \cup OtherTerms

ExprInit ==
    /\ source = <<>>
    /\ chars = <<>>
    /\ tokens \in SampleExpressionTokens
    /\ parse_result = NotParsed
    /\ damage = NoDamage
    /\ front_pc = "parse"

ParseExpression ==
    /\ front_pc = "parse"
    /\ parse_result' = parse_expression(tokens, 0)
    /\ front_pc' = IF parse_result'.ok THEN "parsed" ELSE "rejected"
    /\ UNCHANGED <<source, chars, tokens, damage>>
    /\ UNCHANGED <<ev_vars, run_vars>>

(***************************************************************************)
(* One call of parse on drawn tokens: well-formed scripts, and the same    *)
(* scripts with one token deleted, replaced, or with the tokens cut off.   *)
(***************************************************************************)
SampleCommandTokens ==
    { <<TInput, TStringLiteral(FileA), TSemicolon>>,
      <<TOutput, TStringLiteral(FileOut), TSemicolon>>,
      <<TPrint, TSemicolon>>,
      <<TPrint, TIdentifier(KwLine), TNumber(1), TSemicolon>>,
      <<TTransform, TLBrace,
        TIdentifier(<<"x">>), TEqual, TField(KeyA), TDot, TIdentifier(KwSuffix),
            TLParen, TStringLiteral(<<"_">>), TRParen, TPlus, TStringLiteral(<<"k">>),
            TSemicolon,
        TComment(<<"c">>),
        TIdentifier(<<"n">>), TEqual, TIdentifier(KwSerial), TLParen, TRParen,
            TSemicolon,
        TRBrace>>,
      <<TTransform, TLBrace, TRBrace>>,
      <<TLet, TIdentifier(<<"v">>), TEqual, TStringLiteral(<<"k">>), TSemicolon>>,
      <<TConst, TIdentifier(<<"c">>), TEqual, TField(KeyA), TSemicolon>>,
      <<TComment(<<"c">>)>> }

WellFormedScripts ==
    { Flatten(cs) : cs \in SeqsUpTo(SampleCommandTokens, MaxScriptCommands) }

RequiredTokens == {TSemicolon, TEqual, TLBrace, TRBrace}
CommandTokens == {TInput, TOutput, TPrint, TTransform, TLet, TConst}

\* Where a required token stands, and where a command or an expression
\* starts, in a well-formed script.
RequiredAt(script) == {i \in 1..Len(script) : script[i] \in RequiredTokens}
StartsAt(script) ==
    {i \in 1..Len(script) :
        \/ script[i] \in CommandTokens
        \/ i > 1 /\ script[i - 1] \in {TEqual, TPlus}}

Damage(kind, at, was) == [kind |-> kind, at |-> at, was |-> was]
Damages(script) ==
    {NoDamage}
    \cup {Damage(kind, i, script[i].t) :
              kind \in {"deleted", "replaced", "cut"}, i \in RequiredAt(script)}
    \cup {Damage("unexpected", i, script[i].t) : i \in StartsAt(script)}

Damaged(script, d) ==
    CASE d.kind = "none" -> script
      [] d.kind = "deleted" ->
            SubSeq(script, 1, d.at - 1) \o SubSeq(script, d.at + 1, Len(script))
      [] d.kind = "cut" -> SubSeq(script, 1, d.at - 1)
      [] d.kind = "replaced" -> [script EXCEPT ![d.at] = TPlus]
      [] d.kind = "unexpected" -> [script EXCEPT ![d.at] = TUnknown("#")]

\* A well-formed script with one more Comment token, at any place.
Commented(script, i) ==
    SubSeq(script, 1, i - 1) \o <<TComment(<<"n">>)>> \o SubSeq(script, i, Len(script))
CommentedScripts ==
    UNION { { Commented(script, i) : i \in 1..(Len(script) + 1) } :
                script \in WellFormedScripts }

ParseInit ==
    /\ source = <<>>
    /\ chars = <<>>
    /\ \/ \E script \in WellFormedScripts :
             /\ damage \in Damages(script)
             /\ tokens = Damaged(script, damage)
       \/ /\ damage = NoDamage
          /\ tokens \in CommentedScripts
    /\ parse_result = NotParsed
    /\ front_pc = "parse"

\* main.rs:58-65: Parser::new(tokens).parse()
Parse ==
    /\ front_pc = "parse"
    /\ parse_result' = parse(tokens)
    /\ front_pc' = IF parse_result'.ok THEN "parsed" ELSE "rejected"
    /\ UNCHANGED <<source, chars, tokens, damage>>
    /\ UNCHANGED <<ev_vars, run_vars>>

(***************************************************************************)
(* main.rs: a script text goes through tokenize, parse and run.            *)
(***************************************************************************)
ScenarioScript ==
    <<"t", "r", "a", "n", "s", "f", "o", "r", "m", " ", "{", " ", "o", "u",
      "t", " ", "=", " ", "@", "q", " ", "+", " ", QUOTE, "_", QUOTE, " ", "+",
      " ", "@", "l", "v", "l", ".", "d", "e", "f", "a", "u", "l", "t", "(",
      QUOTE, "0", QUOTE, ")", " ", "+", " ", QUOTE, "_", QUOTE, " ", "+", " ",
      "s", "e", "r", "i", "a", "l", "(", ")", ";", " ", "}", ";">>
ScenarioScriptNoSemicolon ==
    <<"t", "r", "a", "n", "s", "f", "o", "r", "m", " ", "{", " ", "o", "u",
      "t", " ", "=", " ", "@", "q", " ", "+", " ", QUOTE, "_", QUOTE, " ", "+",
      " ", "@", "l", "v", "l", ".", "d", "e", "f", "a", "u", "l", "t", "(",
      QUOTE, "0", QUOTE, ")", " ", "+", " ", QUOTE, "_", QUOTE, " ", "+", " ",
      "s", "e", "r", "i", "a", "l", "(", ")", ";", " ", "}">>
ScenarioScriptWithInput ==
    <<"i", "n", "p", "u", "t", " ", QUOTE, "q", ".", "j", "s", "o", "n", "l",
      QUOTE, ";", " ", "t", "r", "a", "n", "s", "f", "o", "r", "m", " ", "{",
      " ", "o", "u", "t", " ", "=", " ", "@", "q", " ", "+", " ", QUOTE, "_",
      QUOTE, " ", "+", " ", "@", "l", "v", "l", ".", "d", "e", "f", "a", "u",
      "l", "t", "(", QUOTE, "0", QUOTE, ")", " ", "+", " ", QUOTE, "_", QUOTE,
      " ", "+", " ", "s", "e", "r", "i", "a", "l", "(", ")", ";", " ", "}",
      ";">>
ScenarioScriptWithInputNoSemicolon ==
    <<"i", "n", "p", "u", "t", " ", QUOTE, "q", ".", "j", "s", "o", "n", "l",
      QUOTE, ";", " ", "t", "r", "a", "n", "s", "f", "o", "r", "m", " ", "{",
      " ", "o", "u", "t", " ", "=", " ", "@", "q", " ", "+", " ", QUOTE, "_",
      QUOTE, " ", "+", " ", "@", "l", "v", "l", ".", "d", "e", "f", "a", "u",
      "l", "t", "(", QUOTE, "0", QUOTE, ")", " ", "+", " ", QUOTE, "_", QUOTE,
      " ", "+", " ", "s", "e", "r", "i", "a", "l", "(", ")", ";", " ", "}">>
TourScript ==
    <<"/", "/", " ", "l", "o", "a", "d", NL, "i", "n", "p", "u", "t", " ",
      QUOTE, "a", ".", "j", "s", "o", "n", "l", QUOTE, ";", NL, "p", "r", "i",
      "n", "t", ";", " ", "p", "r", "i", "n", "t", " ", "l", "i", "n", "e",
      " ", "1", ";", NL, "/", "*", " ", "n", "u", "m", "b", "e", "r", " ", "*",
      "/", " ", "t", "r", "a", "n", "s", "f", "o", "r", "m", " ", "{", " ",
      "i", "d", " ", "=", " ", "s", "e", "r", "i", "a", "l", "(", ")", ";",
      " ", "a", "l", "l", " ", "=", " ", "r", "a", "w", "(", ")", ";", " ",
      "}", NL, "o", "u", "t", "p", "u", "t", " ", QUOTE, "o", ".", "j", "s",
      "o", "n", "l", QUOTE, ";">>
OddScript ==
    <<"p", "r", "i", "n", "t", " ", "l", "i", "n", "e", " ", "2", ";", " ",
      "i", "n", "p", "u", "t", " ", QUOTE, "m", ".", "j", "s", "o", "n", "l",
      QUOTE, " ", "#", " ", "/", " ", "1", "2", "a", "b", " ", "_", "x", " ",
      QUOTE, "o", "p", "e", "n">>

VariableScript ==
    <<"i", "n", "p", "u", "t", " ", QUOTE, "a", ".", "j", "s", "o", "n", "l",
      QUOTE, ";", " ", "t", "r", "a", "n", "s", "f", "o", "r", "m", " ", "{",
      " ", "x", " ", "=", " ", "@", "z", "z", " ", "+", " ", "n", "a", "m",
      "e", ";", " ", "}">>

SampleScripts ==
    {ScenarioScript, ScenarioScriptNoSemicolon, ScenarioScriptWithInput,
     ScenarioScriptWithInputNoSemicolon, TourScript, OddScript, VariableScript}

\* main.rs:46: Lexer::new(&source)
ScriptInit ==
    /\ source \in SampleScripts
    /\ chars = source
    /\ tokens = <<>>
    /\ parse_result = NotParsed
    /\ damage = NoDamage
    /\ front_pc = "lex"

\* One round of tokenize's loop that pushes a token.
Tokenize ==
    /\ front_pc = "lex"
    /\ next_token(chars).token # TEOF
    /\ tokens' = Append(tokens, next_token(chars).token)
    /\ chars' = next_token(chars).rest
    /\ UNCHANGED <<source, parse_result, damage, front_pc>>
    /\ UNCHANGED <<ev_vars, run_vars>>

\* The round that reads EOF: tokenize returns the tokens.
TokenizeEnd ==
    /\ front_pc = "lex"
    /\ next_token(chars).token = TEOF
    /\ chars' = <<>>
    /\ front_pc' = "parse"
    /\ UNCHANGED <<source, tokens, parse_result, damage>>
    /\ UNCHANGED <<ev_vars, run_vars>>

\* main.rs:80-81: Interpreter::new(), and run is entered.
StartRun ==
    /\ front_pc = "parsed"
    /\ run_pc = "idle"
    /\ input_file_path' = Interpreter_new.input_file_path
    /\ output_file_path' = Interpreter_new.output_file_path
    /\ jsonl_data' = Interpreter_new.jsonl_data
    /\ transformed_data' = Interpreter_new.transformed_data
    /\ run_pc' = "run"
    /\ UNCHANGED <<state, printed, written, executed, serials, last_transform>>
    /\ UNCHANGED <<ev_vars, front_vars>>

\* One round of run's loop over the parsed commands.
RunCommand ==
    /\ front_pc = "parsed"
    /\ run_pc = "run"
    /\ Len(executed) < Len(parse_result.value)
    /\ Exec(parse_result.value[Len(executed) + 1])

\* The loop has gone through all the commands.
FinishRun ==
    /\ front_pc = "parsed"
    /\ Len(executed) = Len(parse_result.value)
    /\ Finish

(***************************************************************************)
(* Specifications.                                                         *)
(***************************************************************************)
vars == <<ev_vars, run_vars, front_vars>>

\* One evaluator call on drawn inputs.
InitEval == EvalInit /\ RunIdle /\ FrontIdle
NextEval == Evaluate
SpecEval == InitEval /\ [][NextEval]_vars

\* One run of the interpreter over any command sequence.
InitRun == RunInit /\ EvalIdle /\ FrontIdle
NextRun ==
    \/ ExecInput
    \/ ExecOutput
    \/ ExecPrint
    \/ ExecPrintLine
    \/ ExecTransform
    \/ Finish
SpecRun == InitRun /\ [][NextRun]_vars

\* One call of evaluate_expression on a text to decode.
InitLiteral == LiteralInit /\ RunIdle /\ FrontIdle
NextLiteral == Evaluate
SpecLiteral == InitLiteral /\ [][NextLiteral]_vars

\* One call of parse_expression.
InitExpr == ExprInit /\ EvalIdle /\ RunIdle
NextExpr == ParseExpression
SpecExpr == InitExpr /\ [][NextExpr]_vars

\* One call of parse.
InitParse == ParseInit /\ EvalIdle /\ RunIdle
NextParse == Parse
SpecParse == InitParse /\ [][NextParse]_vars

\* A script from its text to the end of the run.
InitScript == ScriptInit /\ EvalIdle /\ RunIdle
NextScript ==
    \/ Tokenize
    \/ TokenizeEnd
    \/ Parse
    \/ StartRun
    \/ RunCommand
    \/ FinishRun
SpecScript == InitScript /\ [][NextScript]_vars

(***************************************************************************)
(* Properties.                                                             *)
(***************************************************************************)
Last(seq) == seq[Len(seq)]
Front(seq) == SubSeq(seq, 1, Len(seq) - 1)

\* The decimal text of k, for k below 100.
DecimalText(k) ==
    IF k < 10 THEN <<Digits[k + 1]>>
    ELSE <<Digits[(k \div 10) + 1], Digits[(k % 10) + 1]>>

IsFWM == ev_pc = "done" /\ ev_expr.e = "FieldWithModifiers"

Resolved == get_nested_value_as_string(ev_record, ev_expr.path)
ResolvedEmpty == ~Resolved.some \/ Resolved.v = <<>>

NonEmptyDefaults(modifiers) ==
    {i \in 1..Len(modifiers) : modifiers[i].m = "Default" /\ modifiers[i].s # <<>>}

Min(S) == CHOOSE i \in S : \A j \in S : i <= j

\* What the call returns when pass 1 leaves the text x for a path that
\* resolved to nothing or to "", and the resolved text otherwise.
AfterDefault(x) ==
    ev_result.ok
    /\ ev_result.val =
         VString(prefix_suffix_pass(IF ResolvedEmpty THEN unescape_string(x)
                                    ELSE Resolved.v,
                                    ev_expr.modifiers))

\* C3 as stated: whichever non-empty Default(x) the list contains, pass 1
\* leaves the decoded x for a path resolving to nothing or to "", and the
\* resolved text v otherwise.
C3_AnyDefault ==
    IsFWM =>
        \A i \in NonEmptyDefaults(ev_expr.modifiers) :
            AfterDefault(ev_expr.modifiers[i].s)

\* C3, amended: with a non-empty Default in the list, pass 1 leaves the
\* decoded text of the first non-empty Default for a path resolving to
\* nothing or to "", and the resolved text v otherwise.
C3_FirstDefault ==
    (IsFWM /\ NonEmptyDefaults(ev_expr.modifiers) # {}) =>
        AfterDefault(ev_expr.modifiers[Min(NonEmptyDefaults(ev_expr.modifiers))].s)

\* A non-object intermediate value, two different non-empty Defaults.
C3_Witness ==
    /\ IsFWM
    /\ ev_expr.path = <<KeyA, KeyB>>
    /\ ev_record = <<Entry(KeyA, VString(<<"v">>))>>
    /\ ev_expr.modifiers = <<Default(<<>>), Default(<<BS, "n">>), Default(<<"x">>)>>
    /\ ev_result.val = VString(<<NL>>)

\* C4: a FieldWithModifiers whose value after the Default pass is absent
\* or "" evaluates to "", whatever Prefix and Suffix modifiers it lists.
C4_EmptyStaysEmpty ==
    IsFWM =>
        LET after == default_pass(Resolved, ev_expr.modifiers)
        IN  (~after.some \/ after.v = <<>>) =>
                (ev_result.ok /\ ev_result.val = VString(<<>>))

\* An empty field, an empty Default, a Prefix and a Suffix.
C4_Witness ==
    /\ IsFWM
    /\ ev_expr.path = <<KeyB>>
    /\ ev_record = <<Entry(KeyA, VString(<<"v">>)), Entry(KeyB, VString(<<>>))>>
    /\ ev_expr.modifiers = <<Prefix(<<"P">>), Default(<<>>), Suffix(<<"S">>)>>
    /\ ev_result.val = VString(<<>>)

\* The number of Serial nodes of an expression, and whether the evaluator
\* has an arm for every node of it.
RECURSIVE SerialCount(_), SerialCountAll(_), Evaluable(_)
SerialCount(expr) ==
    CASE expr.e = "Serial" -> 1
      [] expr.e = "Concat" -> SerialCountAll(expr.parts)
      [] OTHER -> 0
SerialCountAll(exprs) ==
    IF exprs = <<>> THEN 0 ELSE SerialCount(exprs[1]) + SerialCountAll(Tail(exprs))
Evaluable(expr) ==
    /\ expr.e # "Variable"
    /\ expr.e = "Concat" => \A i \in 1..Len(expr.parts) : Evaluable(expr.parts[i])

Exprs(assignments) == [j \in 1..Len(assignments) |-> assignments[j].expr]
Names(assignments) == [j \in 1..Len(assignments) |-> assignments[j].field_name]

\* The value assignment j yields for record i of a Transform that starts
\* with the counter at c.
ValueAt(assignments, i, j, c) ==
    evaluate_expression(
        assignments[j].expr, jsonl_data[i],
        [serial_counter |-> c + (i - 1) * SerialCountAll(Exprs(assignments))
                             + SerialCountAll(SubSeq(Exprs(assignments), 1, j - 1))]).val

\* The positions of the first and of the last assignment to each name.
FirstOf(assignments) ==
    {j \in 1..Len(assignments) :
        \A h \in 1..(j - 1) : assignments[h].field_name # assignments[j].field_name}
LastFor(assignments, j) ==
    CHOOSE h \in j..Len(assignments) :
        /\ assignments[h].field_name = assignments[j].field_name
        /\ \A g \in (h + 1)..Len(assignments) :
              assignments[g].field_name # assignments[j].field_name

RECURSIVE Ascending(_)
Ascending(S) ==
    IF S = {} THEN <<>> ELSE <<Min(S)>> \o Ascending(S \ {Min(S)})

TransformStep(assignments) ==
    run_pc = "run" /\ executed' = Append(executed, CmdTransform(assignments))

C6_LatestTransformWritten ==
    (run_pc = "done" /\ written.some) =>
        written.v = to_json_lines(IF last_transform.some THEN last_transform.v
                                  ELSE jsonl_data)

\* The run of a command sequence from a fresh interpreter; it stops at the
\* first command that fails.
RECURSIVE Replay(_, _)
Replay(commands, sofar) ==
    IF commands = <<>> \/ ~sofar.ok THEN sofar
    ELSE Replay(Tail(commands), exec_command(sofar.self, sofar.state, commands[1]))

WithoutPrintLine(commands) == SelectSeq(commands, LAMBDA c : c.c # "PrintLine")

\* C7: PrintLine(N) with N = 0 or N beyond the loaded records prints the
\* warning and is no error; and for every N the interpreter's fields, the
\* evaluator state and the fate of the run are those of the same command
\* sequence with the PrintLine commands left out.
C7_PrintLineQuiet ==
    LET bare == Replay(WithoutPrintLine(executed),
                       Outcome(Interpreter_new, RunEvaluatorState, TRUE, <<>>, <<>>))
    IN  /\ bare.self = Self
        /\ bare.state = state
        /\ bare.ok <=> run_pc # "failed"
        /\ (run_pc # "done" /\ executed # <<>> /\ Last(executed).c = "PrintLine") =>
              /\ run_pc = "run"
              /\ (Last(executed).n = 0 \/ Last(executed).n > Len(jsonl_data)) =>
                    printed = <<out_of_range_warning(Last(executed).n)>>

\* PrintLine(0) with records loaded, and a Transform after it.
C7_Witness ==
    /\ Len(executed) = 3
    /\ executed[1] = CmdInput(FileA)
    /\ executed[2] = CmdPrintLine(0)
    /\ executed[3].c = "Transform"
    /\ transformed_data # <<>>
    /\ run_pc = "done"

(***************************************************************************)
(* The parser's claims.                                                    *)
(***************************************************************************)
TokAt(p) == current_token(tokens, p)
Returned == front_pc \in {"parsed", "rejected"}
FieldFirst == tokens # <<>> /\ tokens[1].t = "Field"

\* A Dot at p with an Identifier after it, and whether `(` follows that.
SegmentAt(p) ==
    TokAt(p).t = "Dot" /\ TokAt(p + 1).t = "Identifier" /\ TokAt(p + 2).t # "LParen"
CallAt(p) ==
    TokAt(p).t = "Dot" /\ TokAt(p + 1).t = "Identifier" /\ TokAt(p + 2).t = "LParen"

\* The segments that follow the Field without a gap, and the path they
\* spell.
Segments ==
    CHOOSE k \in 0..Len(tokens) :
        (\A j \in 0..(k - 1) : SegmentAt(1 + 2 * j)) /\ ~SegmentAt(1 + 2 * k)
PathEnd == 1 + 2 * Segments
ExpectedPath == <<tokens[1].s>> \o [j \in 1..Segments |-> TokAt(2 * j).s]

\* A complete call `. name ( "text" )` of a known modifier at p.
KnownNames == {KwPrefix, KwSuffix, KwDefault}
GoodCallAt(p) ==
    /\ CallAt(p)
    /\ TokAt(p + 1).s \in KnownNames
    /\ TokAt(p + 3).t = "StringLiteral"
    /\ TokAt(p + 4) = TRParen
ModifierAt(p) ==
    [m |-> CASE TokAt(p + 1).s = KwPrefix -> "Prefix"
             [] TokAt(p + 1).s = KwSuffix -> "Suffix"
             [] OTHER -> "Default",
     s |-> TokAt(p + 3).s]

\* The complete calls that follow the path without a gap.
GoodCalls ==
    CHOOSE m \in 0..Len(tokens) :
        (\A j \in 0..(m - 1) : GoodCallAt(PathEnd + 5 * j)) /\ ~GoodCallAt(PathEnd + 5 * m)
CallsEnd == PathEnd + 5 * GoodCalls
Collected == [j \in 1..GoodCalls |-> ModifierAt(PathEnd + 5 * (j - 1))]

\* The first term of the parsed expression, and the term the path and the
\* collected modifiers make.
FirstTerm == IF parse_result.value.e = "Concat"
             THEN parse_result.value.parts[1]
             ELSE parse_result.value
ExpectedTerm == IF Collected = <<>>
                THEN FieldPath(ExpectedPath)
                ELSE FieldWithModifiers(ExpectedPath, Collected)

Resumed(p) ==
    /\ Returned
    /\ front_pc = "parsed" => FirstTerm = ExpectedTerm
    /\ front_pc = "rejected" => parse_result.position > p

\* The call the collection stops at: its name is unknown, its argument is
\* no string, or its closing parenthesis is missing.
UnknownName == TokAt(CallsEnd + 3).t = "StringLiteral" /\ TokAt(CallsEnd + 4) = TRParen
NonStringArgument == TokAt(CallsEnd + 3).t # "StringLiteral"
MissingRParen == TokAt(CallsEnd + 3).t = "StringLiteral" /\ TokAt(CallsEnd + 4) # TRParen
StopsAtCall == Returned /\ FieldFirst /\ CallAt(CallsEnd)

C10_DamagedRejected ==
    (Returned /\ damage.kind # "none") =>
        front_pc = "rejected" /\ parse_result.value = <<>>

\* C2: the script `transform { out = @q + "_" + @lvl.default("0") + "_" +
\* serial(); };` is tokenized and parsed without error, and with the record
\* {"q":"2+2","lvl":"1"} loaded its run yields the one record
\* {"out":"2+2_1_1"}.
C2_ScenarioRuns ==
    source \in {ScenarioScript, ScenarioScriptWithInput} =>
        /\ Returned => front_pc = "parsed"
        /\ (run_pc = "done" /\ jsonl_data = <<ScenarioRecord>>) =>
              transformed_data =
                  << <<Entry(<<"o", "u", "t">>,
                             VString(<<"2", "+", "2", "_", "1", "_", "1">>))>> >>

\* The terms of the expression that starts at p, in source order: a term,
\* then after each `+` or comment that follows a term the next one, comments
\* before a term skipped.  Empty when a term cannot be parsed.
RECURSIVE TermsFrom(_, _)
TermsFrom(p, found) ==
    IF TokAt(p).t = "Comment" THEN TermsFrom(p + 1, found)
    ELSE LET next(term) ==
                 IF ~term.ok THEN <<>>
                 ELSE IF TokAt(term.position).t \in {"Plus", "Comment"}
                      THEN TermsFrom(term.position + 1, Append(found, term.value))
                 ELSE Append(found, term.value)
         IN  next(parse_term(tokens, p))
Terms == TermsFrom(0, <<>>)

\* C11: parse_expression returns a Concat only for two or more terms, its
\* parts being the terms in source order; for exactly one term it returns
\* the term itself; it never returns a Concat of one part or of none.
C11_ConcatOnlyForSeveral ==
    front_pc = "parsed" =>
        /\ Terms # <<>>
        /\ Len(Terms) = 1 => parse_result.value = Terms[1]
        /\ Len(Terms) >= 2 => parse_result.value = Concat(Terms)
        /\ parse_result.value.e = "Concat" => Len(parse_result.value.parts) >= 2

\* An accepted expression of two terms: `@a + "_"`.
C11_Witness ==
    /\ front_pc = "parsed"
    /\ Len(Terms) = 2
    /\ parse_result.value = Concat(<<FieldPath(<<KeyA>>), Literal(<<"_">>)>>)

(***************************************************************************)
(* The order of the modifiers.                                             *)
(***************************************************************************)
IsDefault(modifier) == modifier.m = "Default"
IsPrefix(modifier) == modifier.m = "Prefix"
IsSuffix(modifier) == modifier.m = "Suffix"

\* The value after the Default pass: the resolved text, or for a path
\* resolving to nothing or to "" the decoded text of the first non-empty
\* Default, if there is one.
AfterPass1 ==
    IF ~ResolvedEmpty THEN Resolved.v
    ELSE IF NonEmptyDefaults(ev_expr.modifiers) = {} THEN <<>>
    ELSE unescape_string(ev_expr.modifiers[Min(NonEmptyDefaults(ev_expr.modifiers))].s)

\* The decoded texts of a list of modifiers, joined in list order and in
\* the opposite order.
RECURSIVE Joined(_)
Joined(modifiers) ==
    IF modifiers = <<>> THEN <<>>
    ELSE unescape_string(modifiers[1].s) \o Joined(Tail(modifiers))
RECURSIVE JoinedBackwards(_)
JoinedBackwards(modifiers) ==
    IF modifiers = <<>> THEN <<>>
    ELSE JoinedBackwards(Tail(modifiers)) \o unescape_string(modifiers[1].s)

\* Folding the list in its order over v: every Prefix lands in front of
\* the earlier ones, every Suffix behind the earlier ones.
Folded(v, modifiers) ==
    JoinedBackwards(SelectSeq(modifiers, IsPrefix))
    \o v \o Joined(SelectSeq(modifiers, IsSuffix))

\* The list with its i-th modifier moved to position j.
Moved(modifiers, i, j) ==
    LET rest == SubSeq(modifiers, 1, i - 1) \o SubSeq(modifiers, i + 1, Len(modifiers))
    IN  SubSeq(rest, 1, j - 1) \o <<modifiers[i]>> \o SubSeq(rest, j, Len(rest))

\* What the same call returns for another modifier list.
ValueWith(modifiers) ==
    evaluate_expression(FieldWithModifiers(ev_expr.path, modifiers),
                        ev_record, ev_state).val

FoldsInOrder ==
    (IsFWM /\ AfterPass1 # <<>>) =>
        ev_result.ok /\ ev_result.val = VString(Folded(AfterPass1, ev_expr.modifiers))

\* C12 as stated: a non-empty value after the Default pass is decorated by
\* folding the list in its order, Prefix prepending and Suffix appending
\* the decoded text, and moving any Default to any position of the list
\* leaves the result the same.
C12_AnyDefaultAnywhere ==
    /\ FoldsInOrder
    /\ (IsFWM /\ AfterPass1 # <<>>) =>
          \A i, j \in 1..Len(ev_expr.modifiers) :
              IsDefault(ev_expr.modifiers[i]) =>
                  ValueWith(Moved(ev_expr.modifiers, i, j)) = ev_result.val

\* C12, amended: the fold as stated; moving a Default leaves the result the
\* same when the Defaults keep their order among themselves.
C12_DefaultAmongDecorations ==
    /\ FoldsInOrder
    /\ (IsFWM /\ AfterPass1 # <<>>) =>
          \A i, j \in 1..Len(ev_expr.modifiers) :
              (/\ IsDefault(ev_expr.modifiers[i])
               /\ SelectSeq(Moved(ev_expr.modifiers, i, j), IsDefault)
                     = SelectSeq(ev_expr.modifiers, IsDefault)) =>
                  ValueWith(Moved(ev_expr.modifiers, i, j)) = ev_result.val

\* Two different Prefixes after a Default that filled in the value.
C12_Witness ==
    /\ IsFWM
    /\ ResolvedEmpty
    /\ ev_expr.modifiers = <<Default(<<"x">>), Prefix(<<"P">>), Prefix(<<BS, "t">>)>>
    /\ ev_result.val = VString(<<TAB, "P", "x">>)

\* C13: every expression the parser produces evaluates to a value for
\* every record, missing keys included: a Transform of a parsed script never
\* ends the run with an evaluation error, and yields one record for each
\* loaded record.
C13_EvaluationTotal ==
    (front_pc = "parsed" /\ executed # <<>> /\ Last(executed).c = "Transform") =>
        /\ run_pc # "failed"
        /\ Len(transformed_data) = Len(jsonl_data)

\* The tokens without the Comment tokens, and what parse returns for them.
IsNoComment(token) == token.t # "Comment"
WithoutComments == SelectSeq(tokens, IsNoComment)
SameOutcome(r1, r2) == r1.ok = r2.ok /\ (r1.ok => r1.value = r2.value)

\* C14: parsing a token sequence and parsing it with all its Comment tokens
\* removed give the same outcome, the same command list or an error in
\* both, wherever the comments stand.
C14_CommentsTransparent ==
    Returned => SameOutcome(parse_result, parse(WithoutComments))

(***************************************************************************)
(* Escape decoding.                                                        *)
(***************************************************************************)
Escapes == {"n", "r", "t", QUOTE, BS}
Decoded(c) ==
    CASE c = "n" -> NL
      [] c = "r" -> CR
      [] c = "t" -> TAB
      [] OTHER -> c

\* One pass from left to right: a backslash and the escape character after
\* it become one character, which is not looked at again.
RECURSIVE SinglePass(_)
SinglePass(s) ==
    IF s = <<>> THEN <<>>
    ELSE IF Len(s) >= 2 /\ s[1] = BS /\ s[2] \in Escapes
         THEN <<Decoded(s[2])>> \o SinglePass(SubSeq(s, 3, Len(s)))
    ELSE <<s[1]>> \o SinglePass(Tail(s))

\* C15: the text of a Literal or of a modifier is decoded as by a single
\* pass from left to right, so that a backslash coming from `\\` never
\* forms an escape with the character after it.
C15_SinglePassDecoding ==
    ev_pc = "done" =>
        /\ ev_expr.e = "Literal" =>
              ev_result.val = VString(SinglePass(ev_expr.s))
        /\ (ev_expr.e = "FieldWithModifiers" /\ ev_record = TextRecord
            /\ Len(ev_expr.modifiers) = 1 /\ ev_expr.modifiers[1].m = "Prefix") =>
              ev_result.val = VString(SinglePass(ev_expr.modifiers[1].s) \o <<"v">>)

====
